---- MODULE Spec2Model ----
(***************************************************************************)
(* Model of the decorator logger in src/main.py (class Logger).            *)
(*                                                                         *)
(* Texts are sequences of tokens: a string literal of the source is one    *)
(* token, a formatted value is one token per character, so that the width  *)
(* of a centred field is computed as Python computes it.  The ANSI escape  *)
(* byte is written "ESC".  The file system is the log directory (present   *)
(* or not) and the log file (absent, or its content as a text).            *)
(***************************************************************************)
EXTENDS Integers, Sequences, FiniteSets, TLC

VARIABLES
    write_all,      \* self.write_all
    color_lvl,      \* self.color_lvl
    write_console,  \* decorator argument write_console
    write_file_flag,\* decorator argument write_file
    dir,            \* the directory of self.exit_path exists
    file,           \* content of self.exit_path, or Absent
    console,        \* sequence of the texts printed so far
    now,            \* datetime.now(), in minutes
    nops,           \* number of steps taken
    last            \* the operation performed by the last step

vars == <<write_all, color_lvl, write_console, write_file_flag,
          dir, file, console, now, nops, last>>

\* ---------------------------------------------------------------- bounds
MaxOps == 2

\* ------------------------------------------------------- class constants
HEADER == "ESC[95m"
OKBLUE == "ESC[94m"
OKCYAN == "ESC[96m"
OKGREEN == "ESC[92m"
WARNING == "ESC[93m"
WHITE == "ESC[97m"
FAIL == "ESC[91m"
ENDC == "ESC[0m"
BOLD == "ESC[1m"
UNDERLINE == "ESC[4m"

ColorCodes == {HEADER, OKBLUE, OKCYAN, OKGREEN, WARNING, WHITE, FAIL, ENDC,
               BOLD, UNDERLINE}

\* ---------------------------------------------------------- Python values
Absent == <<"<absent>">>

IntV(n) == [tag |-> "int", n |-> n, s |-> <<>>]
StrV(s) == [tag |-> "str", n |-> 0, s |-> s]
NoneV == [tag |-> "none", n |-> 0, s |-> <<>>]

Digit(d) == <<"0", "1", "2", "3", "4", "5", "6", "7", "8", "9">>[d + 1]

RECURSIVE Digits(_)
Digits(n) == IF n < 10 THEN <<Digit(n)>>
             ELSE Digits(n \div 10) \o <<Digit(n % 10)>>

\* str(v) of a value that supports a format spec
Chars(v) == IF v.tag = "int" THEN Digits(v.n) ELSE v.s

\* NoneType.__format__ rejects a non-empty format spec
CanFormat(v) == v.tag # "none"

\* v != 200 in Python: a string never equals an integer
Ne200(v) == ~(v.tag = "int" /\ v.n = 200)

RECURSIVE Spaces(_)
Spaces(k) == IF k <= 0 THEN <<>> ELSE <<" ">> \o Spaces(k - 1)

\* f"{s:^w}": the smaller half of the padding goes to the left
Center(s, w) ==
    LET pad == IF Len(s) >= w THEN 0 ELSE w - Len(s)
        left == pad \div 2
    IN  Spaces(left) \o s \o Spaces(pad - left)

\* datetime.strftime(datetime.now(), "%Y-%m-%d %H:%M")
strftime(t) == <<"2025-01-01 00:">> \o (IF t < 10 THEN <<"0">> ELSE <<>>)
                  \o Digits(t)

\* ------------------------------------------------------------ __schame_msg__
None == <<>>

schame_msg(type_msg, data, t) ==
    IF type_msg \notin {"info", "error", "warning", "debug"} THEN None
    ELSE CASE type_msg = "info" ->
                <<  <<OKGREEN, "INFO", ENDC, ":     ">> \o strftime(t)
                      \o <<" ||", WHITE, BOLD>> \o Center(data.method, 8)
                      \o <<ENDC, "||", WHITE, BOLD>> \o Center(data.url, 25)
                      \o <<ENDC, "||", OKGREEN, " ">>
                      \o Center(Chars(data.status_code), 5)
                      \o <<" ||", " ">> \o data.msg \o <<ENDC>>,
                    <<"INFO", ":     ">> \o strftime(t)
                      \o <<" ||">> \o Center(data.method, 8) \o <<"||">>
                      \o Center(data.url, 25) \o <<"|| ">>
                      \o Center(Chars(data.status_code), 5)
                      \o <<" ||", " ">> \o data.msg \o <<"\n">>  >>
           [] type_msg = "error" ->
                <<  <<FAIL, "ERROR", ENDC, ":    ">> \o strftime(t)
                      \o <<" ||", WHITE, BOLD>> \o Center(data.method, 8)
                      \o <<ENDC, "||", WHITE, BOLD>> \o Center(data.url, 25)
                      \o <<ENDC, "||", FAIL, " ">>
                      \o Center(Chars(data.status_code), 5)
                      \o <<" ||", " ">> \o data.msg \o <<ENDC>>,
                    <<"ERROR", ":    ">> \o strftime(t)
                      \o <<" ||">> \o Center(data.method, 8) \o <<"||">>
                      \o Center(data.url, 25) \o <<"|| ">>
                      \o Center(Chars(data.status_code), 5)
                      \o <<" ||", " ">> \o data.msg \o <<"\n">>  >>
           [] OTHER -> None

\* ------------------------------------------------------------------ get_path
CreatedLine(t) == <<"DEBUG", ":    ">> \o strftime(t)
                    \o <<" || ", "Sozdan fajl loggirovaniya", "\n">>

\* get_path without the exists() test: the file is opened with 'w' every time
get_path_always(d, f, t, mk) ==
    IF d \/ mk THEN [dir |-> TRUE, file |-> CreatedLine(t), ret |-> TRUE]
               ELSE [dir |-> d, file |-> f, ret |-> TRUE]

\* mk: os.makedirs succeeds when the directory is missing (with exist_ok it
\* always succeeds on an existing one); when it raises, the exception is
\* swallowed and nothing is created.  The method returns True on every path.
get_path(d, f, t, mk) ==
    IF f = Absent
    THEN IF d \/ mk THEN [dir |-> TRUE, file |-> CreatedLine(t), ret |-> TRUE]
                    ELSE [dir |-> d, file |-> f, ret |-> TRUE]
    ELSE [dir |-> d, file |-> f, ret |-> TRUE]

\* ---------------------------------------------------------------- write_file
FileNotFound == <<"File Not Found">>

\* write_file that creates the missing directory instead of reporting it
write_file_makedirs(msg, d, f, c) ==
    [file |-> (IF f = Absent THEN <<>> ELSE f) \o msg, console |-> c]

\* write_file that opens the file with 'w' instead of 'a'
write_file_truncate(msg, d, f, c) ==
    IF d THEN [file |-> msg, console |-> c]
         ELSE [file |-> f, console |-> Append(c, FileNotFound)]

\* open(..., 'a') creates a missing file and raises FileNotFoundError only
\* when the directory is missing
write_file(msg, d, f, c) ==
    IF d THEN [file |-> (IF f = Absent THEN <<>> ELSE f) \o msg, console |-> c]
         ELSE [file |-> f, console |-> Append(c, FileNotFound)]

\* ------------------------------------------------------- values of a call
\* What the wrapped callable does: raise, return None, return a dict, or
\* return another object (a response with attributes, or a plain value).
NoBody == <<>>

Ret(kind, has_sc, sc, has_body, body) ==
    [kind |-> kind, has_sc |-> has_sc, sc |-> sc,
     has_body |-> has_body, body |-> body, exc |-> "-"]

\* the callable raises the exception exc
Raises(exc) == [Ret("raise", FALSE, NoneV, FALSE, NoBody) EXCEPT !.exc = exc]

Returns ==
    { Raises("ValueError"),
      Ret("none", FALSE, NoneV, FALSE, NoBody),
      Ret("dict", FALSE, NoneV, FALSE, NoBody),
      Ret("dict", TRUE, IntV(404), TRUE, <<"n", "f">>),
      Ret("dict", TRUE, NoneV, FALSE, NoBody),
      Ret("obj", TRUE, IntV(200), TRUE, <<"h", "i">>),
      Ret("obj", FALSE, NoneV, FALSE, NoBody) }

\* how the call passes a request-like object: not at all, as the keyword
\* argument request=..., or positionally
ReqModes == {"none", "kw", "pos"}
Request == [method |-> <<"G", "E", "T">>, path |-> <<"/", "a">>]
func_name == <<"f">>

\* ------------------------------------------------------------------ wrapper
\* the exception of func is swallowed
Propagates_swallow(ret) == FALSE

\* line 174: no try/except surrounds func(*args, **kwargs)
Propagates(ret) == ret.kind = "raise"

\* lines 176-181
Normalize(ret) ==
    IF ret.kind \in {"dict", "none"}
    THEN LET status_code == IF ret.kind = "none" THEN IntV(200)
                            ELSE IF ret.has_sc THEN ret.sc
                            ELSE StrV(<<"-">>)
         IN  Ret("dotmap", TRUE, status_code, ret.has_body, ret.body)
    ELSE ret

\* the global flag is ignored
Disabled_never(wa) == FALSE

\* line 183
Disabled(wa) == ~wa

\* a request passed positionally is detected too
has_request_any(reqmode) == reqmode # "none"

\* line 191
has_request(reqmode) == reqmode = "kw"

\* result.body: a DotMap makes up a missing attribute as an empty DotMap,
\* another object raises AttributeError
HasAttrBody(result) == result.kind = "dotmap" \/ result.has_body
AttrBody(result) == IF result.has_body THEN result.body ELSE <<"DotMap()">>

\* only the 4xx/5xx integers are errors
type_msg_of_ge400(status_code) ==
    IF status_code.tag = "int" /\ status_code.n >= 400 THEN "error"
                                                        ELSE "info"

\* lines 189, 196-197
type_msg_of(status_code) == IF Ne200(status_code) THEN "error" ELSE "info"

\* the write_console flag is ignored
print_console_always(wc, c, text) == Append(c, text)

\* lines 204-205
print_console(wc, c, text) == IF wc THEN Append(c, text) ELSE c

\* lines 207-208
append_file(wf, msg, d, f, c) ==
    IF wf THEN write_file(msg, d, f, c) ELSE [file |-> f, console |-> c]

NoData == [method |-> <<>>, url |-> <<>>, msg |-> <<>>, status_code |-> NoneV]
NoResult == Ret("-", FALSE, NoneV, FALSE, NoBody)

Outcome(raised, result, emitted, type_msg, data, message, c, f, events) ==
    [raised |-> raised, result |-> result, emitted |-> emitted,
     type_msg |-> type_msg, data |-> data, message |-> message,
     console |-> c, file |-> f, events |-> events]

Raise(exc, c, f) ==
    Outcome(exc, NoResult, FALSE, "-", NoData, None, c, f, <<"call">>)

wrapper(wa, wc, wf, ret, reqmode, d, f, c, t) ==
    IF Propagates(ret) THEN Raise(ret.exc, c, f)
    ELSE
    LET result == Normalize(ret) IN
    IF Disabled(wa)
    THEN Outcome("-", result, FALSE, "-", NoData, None, c, f, <<"call">>)
    ELSE
    IF has_request(reqmode) /\ ~HasAttrBody(result)
    THEN Raise("AttributeError", c, f)
    ELSE
    IF ~result.has_sc THEN Raise("AttributeError", c, f)
    ELSE
    LET method == IF has_request(reqmode) THEN Request.method ELSE <<"-">>
        url == IF has_request(reqmode) THEN Request.path ELSE func_name
        msg == IF has_request(reqmode) THEN AttrBody(result)
                                       ELSE <<"O", "K">>
        type_msg == type_msg_of(result.sc)
        data == [method |-> method, url |-> url, msg |-> msg,
                 status_code |-> result.sc]
    IN
    IF ~CanFormat(result.sc) THEN Raise("TypeError", c, f)
    ELSE
    LET message == schame_msg(type_msg, data, t)
        c1 == print_console(wc, c, message[1])
        w == append_file(wf, message[2], d, f, c1)
        events == <<"call">>
                    \o (IF wc THEN <<"print">> ELSE <<>>)
                    \o (IF wf THEN <<"write_file">> ELSE <<>>)
    IN  Outcome("-", result, TRUE, type_msg, data, message,
                w.console, w.file, events)

\* ------------------------------------------------------------------ actions
NoOutcome == Outcome("-", NoResult, FALSE, "-", NoData, None, <<>>, <<>>, <<>>)

Last(op, ret, reqmode, msg, out) ==
    [op |-> op, ret |-> ret, reqmode |-> reqmode, msg |-> msg, out |-> out]

PreContents == { Absent, <<"o", "l", "d", "\n">> }

Init ==
    /\ write_all \in BOOLEAN
    /\ color_lvl \in BOOLEAN
    /\ write_console \in BOOLEAN
    /\ write_file_flag \in BOOLEAN
    /\ now = 0
    /\ nops = 0
    /\ console = <<>>
    /\ \E d0 \in BOOLEAN, f0 \in PreContents, mk \in BOOLEAN :
          /\ f0 # Absent => d0
          /\ dir = get_path(d0, f0, now, mk).dir
          /\ file = get_path(d0, f0, now, mk).file
    /\ last = Last("__init__", NoResult, "none", <<>>, NoOutcome)

Config == <<write_all, color_lvl, write_console, write_file_flag>>

\* one call of the decorated function
Invoke ==
    /\ nops < MaxOps
    /\ \E ret \in Returns, reqmode \in ReqModes :
         LET out == wrapper(write_all, write_console, write_file_flag, ret,
                            reqmode, dir, file, console, now)
         IN  /\ file' = out.file
             /\ console' = out.console
             /\ last' = Last("wrapper", ret, reqmode, <<>>,
                              [out EXCEPT !.console = <<>>, !.file = <<>>])
    /\ nops' = nops + 1
    /\ UNCHANGED <<Config, dir, now>>

\* get_path called again (a second Logger on the same path)
GetPath ==
    /\ nops < MaxOps
    /\ \E mk \in BOOLEAN :
         LET g == get_path(dir, file, now, mk)
         IN  /\ dir' = g.dir
             /\ file' = g.file
             /\ last' = Last("get_path", NoResult, "none", <<>>, NoOutcome)
    /\ nops' = nops + 1
    /\ UNCHANGED <<Config, console, now>>

Messages == { <<"m", "\n">> }

\* write_file awaited directly
WriteFile ==
    /\ nops < MaxOps
    /\ \E msg \in Messages :
         LET w == write_file(msg, dir, file, console)
         IN  /\ file' = w.file
             /\ console' = w.console
             /\ last' = Last("write_file", NoResult, "none", msg, NoOutcome)
    /\ nops' = nops + 1
    /\ UNCHANGED <<Config, dir, now>>

\* the environment removes the log file, or its directory with it
DeleteFile ==
    /\ nops < MaxOps
    /\ file # Absent
    /\ file' = Absent
    /\ last' = Last("unlink", NoResult, "none", <<>>, NoOutcome)
    /\ nops' = nops + 1
    /\ UNCHANGED <<Config, dir, console, now>>

DeleteDir ==
    /\ nops < MaxOps
    /\ dir
    /\ dir' = FALSE
    /\ file' = Absent
    /\ last' = Last("rmtree", NoResult, "none", <<>>, NoOutcome)
    /\ nops' = nops + 1
    /\ UNCHANGED <<Config, console, now>>

\* the clock reaches the next minute
Tick ==
    /\ nops < MaxOps
    /\ now' = now + 1
    /\ last' = Last("tick", NoResult, "none", <<>>, NoOutcome)
    /\ nops' = nops + 1
    /\ UNCHANGED <<Config, dir, file, console>>

Next == Invoke \/ GetPath \/ WriteFile \/ DeleteFile \/ DeleteDir \/ Tick

Spec == Init /\ [][Next]_vars

\* ------------------------------------------------ vocabulary of the claims
Content(f) == IF f = Absent THEN <<>> ELSE f

\* what a step printed, and what it added at the end of the file
Printed(c0, c1) == SubSeq(c1, Len(c0) + 1, Len(c1))
Appended(f0, f1) == SubSeq(Content(f1), Len(Content(f0)) + 1, Len(Content(f1)))

IsPrefix(a, b) == Len(a) <= Len(b) /\ SubSeq(b, 1, Len(a)) = a

HasColor(text) == \E i \in 1..Len(text) : text[i] \in ColorCodes

Count(seq, x) == Cardinality({i \in 1..Len(seq) : seq[i] = x})

\* the level label of a line: its first token that is not a colour code
LabelOf(text) ==
    text[CHOOSE i \in 1..Len(text) :
            /\ text[i] \notin ColorCodes
            /\ \A j \in 1..(i - 1) : text[j] \in ColorCodes]

\* the fields of a file line, between its || separators
Separators == {" ||", "||", "|| "}

RECURSIVE Split(_)
Split(text) ==
    IF \E i \in 1..Len(text) : text[i] \in Separators
    THEN LET i == CHOOSE k \in 1..Len(text) :
                     /\ text[k] \in Separators
                     /\ \A j \in 1..(k - 1) : text[j] \notin Separators
         IN  <<SubSeq(text, 1, i - 1)>> \o Split(SubSeq(text, i + 1, Len(text)))
    ELSE <<text>>

IsSpace(x) == x = " "
Strip(text) == SelectSeq(text, LAMBDA x : ~IsSpace(x))

LoggedMethod(line) == Strip(Split(line)[2])
LoggedTarget(line) == Strip(Split(line)[3])
LoggedStatus(line) == Strip(Split(line)[4])
LoggedMessage(line) ==
    LET m == Split(line)[5] IN SubSeq(m, 2, Len(m) - 1)

WrapperStep == last'.op = "wrapper"
Returned == last'.out.raised = "-"
Emitted == last'.out.emitted
conText == last'.out.message[1]
fileText == last'.out.message[2]

\* ------------------------------------------------------------------- claims

\* C1: with write_all = False an invocation of the decorated function, for
\* any return value and any write_console / write_file flags, prints nothing
\* and leaves the log file exactly as it was.
C1_DisabledNoEffect ==
    [][ (WrapperStep /\ ~write_all) =>
            /\ console' = console
            /\ file' = file
            /\ ~Emitted ]_vars

C1_Witness ==
    /\ last.op = "wrapper"
    /\ ~write_all /\ write_console /\ write_file_flag
    /\ last.ret.kind = "dict" /\ last.ret.has_sc
    /\ last.out.raised = "-"
    /\ file # Absent

\* C2: a returned dict or None is normalized to status code 200 unless the
\* dict has a status_code key, whose value is then the status code; a dict
\* without the key is status 200 and logged as "info".
C2_DefaultStatus200 ==
    (last.op = "wrapper" /\ last.ret.kind \in {"dict", "none"}
        /\ last.out.raised = "-") =>
        /\ last.out.result.sc =
              (IF last.ret.kind = "dict" /\ last.ret.has_sc THEN last.ret.sc
                                                            ELSE IntV(200))
        /\ (last.out.emitted /\ ~last.ret.has_sc) => last.out.type_msg = "info"

\* C3: every line an enabled invocation emits is labelled ERROR exactly when
\* the normalized status code differs from 200 and INFO exactly when it is
\* 200; no other kind is emitted and the console and file labels agree.
C3_KindFromStatus ==
    [][ (WrapperStep /\ Emitted) =>
          LET label == IF last'.out.result.sc = IntV(200) THEN "INFO"
                                                           ELSE "ERROR"
          IN  /\ last'.out.type_msg \in {"info", "error"}
              /\ last'.out.type_msg = "error" <=> label = "ERROR"
              /\ LabelOf(conText) = label
              /\ LabelOf(fileText) = label
              /\ \A i \in 1..Len(Printed(console, console')) :
                    Printed(console, console')[i] # FileNotFound =>
                        LabelOf(Printed(console, console')[i]) = label
              /\ Appended(file, file') # <<>> =>
                    LabelOf(Appended(file, file')) = label ]_vars

C3_Witness ==
    /\ last.op = "wrapper" /\ last.out.emitted
    /\ last.out.result.sc = StrV(<<"-">>)
    /\ last.out.type_msg = "error"
    /\ write_console /\ write_file_flag /\ dir
    /\ console # <<>> /\ LabelOf(console[Len(console)]) = "ERROR"

\* C4 as stated: with logging enabled, an invocation that returns prints the
\* console text exactly once iff write_console, appends the file text exactly
\* once iff write_file, leaves a sink whose flag is false unchanged, and calls
\* the wrapped function exactly once before either sink is written.
C4_EachSinkIffFlag ==
    [][ (WrapperStep /\ write_all /\ Returned) =>
          /\ Count(Printed(console, console'), conText) =
                (IF write_console THEN 1 ELSE 0)
          /\ ~write_console => console' = console
          /\ write_file_flag => /\ file' # Absent
                                /\ file' = Content(file) \o fileText
          /\ ~write_file_flag => file' = file
          /\ Count(last'.out.events, "call") = 1
          /\ last'.out.events[1] = "call" ]_vars

\* C4 amended: with logging enabled, an invocation that returns prints the
\* console text exactly once iff write_console; with write_file it appends
\* the file text exactly once when the log directory exists (creating the
\* file when only the file is missing) and otherwise appends nothing and
\* prints "File Not Found", also when write_console is false; without
\* write_file the file is unchanged; the wrapped function is called exactly
\* once, first.  An invocation that raises writes neither sink.
C4_SinksAndMissingDirectory ==
    [][ (WrapperStep /\ write_all) =>
          IF Returned
          THEN /\ Emitted
               /\ console' = console
                     \o (IF write_console THEN <<conText>> ELSE <<>>)
                     \o (IF write_file_flag /\ ~dir THEN <<FileNotFound>>
                                                    ELSE <<>>)
               /\ file' = (IF write_file_flag /\ dir
                           THEN Content(file) \o fileText ELSE file)
               /\ Count(last'.out.events, "call") = 1
               /\ last'.out.events[1] = "call"
          ELSE /\ console' = console
               /\ file' = file
               /\ last'.out.events = <<"call">> ]_vars

C4_Witness ==
    /\ last.op = "wrapper" /\ write_all /\ last.out.raised = "-"
    /\ ~write_console /\ write_file_flag /\ ~dir
    /\ file = Absent
    /\ console = <<FileNotFound>>

\* C5 as stated: write_file called while the log file is missing prints the
\* failure, does not raise, and does not recreate the file, so the file is
\* still absent afterwards.
C5_MissingFileStaysAbsent ==
    [][ (last'.op = "write_file" /\ file = Absent) =>
          /\ console' = Append(console, FileNotFound)
          /\ file' = Absent ]_vars

\* C5 amended: write_file called while the directory of the log file is
\* missing prints "File Not Found", does not raise and creates nothing; called
\* while only the file is missing it creates the file holding exactly the
\* text and prints nothing.
C5_MissingDirectoryReported ==
    [][ (last'.op = "write_file" /\ file = Absent) =>
          IF dir THEN /\ file' = last'.msg
                      /\ console' = console
                 ELSE /\ file' = Absent
                      /\ dir' = FALSE
                      /\ console' = Append(console, FileNotFound) ]_vars

C5_Witness ==
    /\ last.op = "write_file"
    /\ ~dir /\ file = Absent
    /\ console # <<>> /\ console[Len(console)] = FileNotFound

\* C6: get_path is idempotent: on an existing file it changes nothing, on an
\* absent one it writes just the creation line (or fails silently), so the
\* file never holds more than one creation line.
C6_GetPathIdempotent ==
    /\ [](Count(Content(file), "DEBUG") <= 1)
    /\ [][ last'.op = "get_path" =>
             /\ file # Absent => (file' = file /\ dir' = dir)
             /\ file = Absent => file' \in {Absent, CreatedLine(now)} ]_vars

C6_Witness ==
    /\ last.op = "get_path"
    /\ file # Absent
    /\ Count(file, "DEBUG") = 1
    /\ Len(file) > Len(CreatedLine(now))

\* C7: when the wrapped function raises, the decorated function raises that
\* same exception, prints nothing and leaves the log file unchanged.
C7_ExceptionPropagates ==
    [][ (WrapperStep /\ last'.ret.kind = "raise") =>
          /\ last'.out.raised = last'.ret.exc
          /\ ~Emitted
          /\ console' = console
          /\ file' = file ]_vars

C7_Witness ==
    /\ last.op = "wrapper" /\ last.ret.kind = "raise"
    /\ last.out.raised = "ValueError"
    /\ write_all /\ write_console /\ write_file_flag /\ dir /\ file # Absent

\* C8 as stated: a request-like argument, however it was passed, makes the
\* logged method, target and message the request's method, its path and the
\* result body; without one they are "-", the function name and "OK".
C8_RequestHoweverPassed ==
    [][ (WrapperStep /\ Emitted) =>
          LET body == IF last'.out.result.has_body THEN last'.out.result.body
                                                   ELSE <<"DotMap()">>
              expected == IF last'.reqmode # "none"
                          THEN <<Request.method, Request.path, body>>
                          ELSE <<<<"-">>, func_name, <<"O", "K">>>>
          IN  <<LoggedMethod(fileText), LoggedTarget(fileText),
                LoggedMessage(fileText)>> = expected ]_vars

\* C8 amended: a request-like object passed as the keyword argument named
\* request makes the logged method, target and message the request's
\* method, its path and the result's body (printed as DotMap() when a dict
\* result has no body key); in every other call, one that passes the request
\* positionally included, they are "-", the function name and "OK".
C8_RequestKeywordOnly ==
    [][ (WrapperStep /\ Emitted) =>
          LET body == IF last'.out.result.has_body THEN last'.out.result.body
                                                   ELSE <<"DotMap()">>
              expected == IF last'.reqmode = "kw"
                          THEN <<Request.method, Request.path, body>>
                          ELSE <<<<"-">>, func_name, <<"O", "K">>>>
          IN  /\ <<LoggedMethod(fileText), LoggedTarget(fileText),
                   LoggedMessage(fileText)>> = expected
              /\ write_file_flag /\ dir =>
                    <<LoggedMethod(Appended(file, file')),
                      LoggedTarget(Appended(file, file')),
                      LoggedMessage(Appended(file, file'))>> = expected ]_vars

C8_Witness ==
    /\ last.op = "wrapper" /\ last.out.emitted
    /\ last.reqmode = "pos"
    /\ write_file_flag /\ file # Absent
    /\ LoggedTarget(last.out.message[2]) = func_name
    /\ LoggedMethod(last.out.message[2]) = <<"-">>

\* C9: the file text of every info or error event has no colour code and
\* ends in a newline, and the console text has colour codes only if
\* color_lvl is true.
C9_ColorOnlyIfEnabled ==
    (last.op = "wrapper" /\ last.out.emitted) =>
        /\ ~HasColor(last.out.message[2])
        /\ last.out.message[2][Len(last.out.message[2])] = "\n"
        /\ HasColor(last.out.message[1]) => color_lvl

\* C10: on an existing log file get_path, write_file and the decorated
\* function only ever append: the content before the operation is a prefix
\* of the content after it, and an enabled invocation with write_file that
\* formats a line extends the file by exactly that line.
C10_AppendOnly ==
    [][ (last'.op \in {"get_path", "write_file", "wrapper"} /\ file # Absent)
          =>
          /\ file' # Absent
          /\ IsPrefix(file, file')
          /\ last'.op = "get_path" => file' = file
          /\ last'.op = "write_file" => file' = file \o last'.msg
          /\ WrapperStep =>
                file' = (IF Emitted /\ write_file_flag THEN file \o fileText
                                                       ELSE file) ]_vars

C10_Witness ==
    /\ last.op = "wrapper" /\ last.out.emitted
    /\ write_all /\ write_file_flag
    /\ nops = 2
    /\ file # Absent
    /\ Count(file, "\n") = 3
    /\ IsPrefix(CreatedLine(0), file)

====
